---- MODULE Spec2Model ----
(***************************************************************************)
(* Model of src/app.py: the mention store, the bounded crawl log and the   *)
(* request handlers that read and rewrite them as whole-file snapshots.    *)
(*                                                                         *)
(* A JSON value is a string; a JSON integer n is the string "int:n" so     *)
(* that it stays distinct from the JSON string "n" (str() maps both to     *)
(* "n").  A JSON object is a function from its keys to its values; a key   *)
(* that is missing is missing from the function's domain.                  *)
(***************************************************************************)
EXTENDS Integers, Sequences, FiniteSets, TLC

VARIABLES
    mentionsFile,   \* MENTIONS_FILE: [state, data]
    crawlLogFile,   \* CRAWL_LOG_FILE: [state, data]
    storage,        \* condition of the data directory: what a write does
    now,            \* the clock datetime.now() reads
    request,        \* the request the last handler served
    resp,           \* the response it returned
    trace,          \* what that handler did: its load, its writes, its calls
    previous,       \* the request served just before, if it was an ingestion
                    \* run that saved its merge: its candidates and result
    appended,       \* every entry AppendLog handed to save_crawl_log so far
    logWriteFailed, \* whether a write of the crawl log by AppendLog has failed
    pool            \* the server's worker threads when requests overlap: where
                    \* each one stands in its handler and what it holds

vars ==
    <<mentionsFile, crawlLogFile, storage, now, request, resp, trace, previous,
      appended, logWriteFailed, pool>>

(***************************************************************************)
(* Bounds of the model.                                                    *)
(***************************************************************************)
MaxMentions == 2    \* longest mention store a crawl may produce
MaxTime == 2        \* clock readings (crawls and successful updates)
MaxAppends == 103   \* direct save_crawl_log calls under SpecLog
NWorkers == 2       \* requests that may overlap under SpecConc
MaxBatch == 12      \* longest candidate sequence under SpecPreview

(***************************************************************************)
(* Program constants.                                                      *)
(***************************************************************************)
LOG_KEEP == 100
DEFAULT_LIMIT == 20
PREVIEW == 10

DEFAULT_QUERIES ==
    << "utility municipalization", "public power initiative",
       "municipal utility", "franchise agreement utility" >>

(***************************************************************************)
(* Python values and the built-ins the handlers use.                       *)
(***************************************************************************)
PyNone == "<None>"

\* dict.get(k): the value, or None when the key is missing
PyGet(m, k) == IF k \in DOMAIN m THEN m[k] ELSE PyNone

\* d[k] = v
PySetItem(m, k, v) == [x \in (DOMAIN m) \cup {k} |-> IF x = k THEN v ELSE m[x]]

\* str(v)
PyStr(v) ==
    CASE v = PyNone -> "None"
      [] v = "int:1" -> "1"
      [] v = "int:2" -> "2"
      [] OTHER -> v

\* truthiness of an optional string: None and "" are false
PyTruthy(v) == v # PyNone /\ v # ""

\* dict.get(k, d)
PyGetOr(m, k, d) == IF k \in DOMAIN m THEN m[k] ELSE d

\* truthiness of a dict
PyTruthyDict(m) == DOMAIN m # {}

\* s[i:] for any integer i (negative i counts from the end)
PySliceFrom(s, i) ==
    LET n == Len(s)
        start == IF i < 0 THEN (IF n + i < 0 THEN 0 ELSE n + i)
                          ELSE (IF i > n THEN n ELSE i)
    IN  SubSeq(s, start + 1, n)

\* s[:k] for k >= 0
PySliceTo(s, k) == SubSeq(s, 1, IF k > Len(s) THEN Len(s) ELSE k)

(***************************************************************************)
(* Persistence layer.  A file is absent, holds a JSON list (ok) or holds   *)
(* bytes json.load rejects (corrupt).                                      *)
(***************************************************************************)
AbsentFile == [state |-> "absent", data |-> <<>>]
CorruptFile == [state |-> "corrupt", data |-> <<>>]

StorageStates == {"ok", "open_fails", "write_fails"}

\* open(path, 'w') followed by json.dump(content): with the directory in
\* order the file is replaced; when open() raises the file is untouched; when
\* open() has truncated the file and the dump raises, what is left does not
\* parse.
WriteFile(file, content, st) ==
    CASE st = "ok" -> [state |-> "ok", data |-> content]
      [] st = "open_fails" -> file
      [] st = "write_fails" -> CorruptFile

\* mutant: the loaders catch nothing
load_catches_nothing == {}

\* the exceptions load_mentions and load_crawl_log catch
load_catches == {"JSONDecodeError"}

\* what a loader raises to its caller: json.load raises JSONDecodeError on a
\* file that does not parse, and a missing file is never opened
load_raised(file) ==
    IF file.state = "corrupt" /\ "JSONDecodeError" \notin load_catches
    THEN "JSONDecodeError"
    ELSE ""

load_mentions(file) == IF file.state = "ok" THEN file.data ELSE <<>>

save_mentions(file, mentions, st) == WriteFile(file, mentions, st)

load_crawl_log(file) == IF file.state = "ok" THEN file.data ELSE <<>>

\* mutant: the log is not read back, the file holds the new entry alone
save_crawl_log_only_new(file, log_entry, st) == WriteFile(file, <<log_entry>>, st)

\* mutant: the slice keeps the first entries instead of the last
save_crawl_log_keeps_oldest(file, log_entry, st) ==
    LET logs == PySliceTo(Append(load_crawl_log(file), log_entry), LOG_KEEP)
    IN  WriteFile(file, logs, st)

save_crawl_log(file, log_entry, st) ==
    LET logs == PySliceFrom(Append(load_crawl_log(file), log_entry), -LOG_KEEP)
    IN  WriteFile(file, logs, st)

(***************************************************************************)
(* Inputs.                                                                 *)
(***************************************************************************)
\* candidate mentions the crawl collaborator may return: mA and mB share a
\* url and their ids have the same str(); mD has neither url nor id; mC and
\* mE have different urls and ids with the same str()
mA == [id |-> "int:1", url |-> "a", status |-> "pending", location |-> "x",
       priority |-> "high", capturedAt |-> "c1"]
mB == [id |-> "1", url |-> "a", status |-> "approved", location |-> "y",
       priority |-> "high", capturedAt |-> "c2"]
mC == [id |-> "2", url |-> "b", status |-> "pending", location |-> "y",
       priority |-> "low", capturedAt |-> "c1"]
mD == [status |-> "approved", location |-> "x", source |-> "s"]
mE == [id |-> "int:2", url |-> "c", status |-> "pending", source |-> "s",
       capturedAt |-> "not a date"]

\* the 'queries' key of the crawl request body: missing, or a list
NoQueries == [given |-> FALSE, v |-> <<>>]
Q1 == [given |-> TRUE, v |-> <<"q1">>]
QueryInputs == {NoQueries, Q1}

\* crawl requests that succeed: the queries sent and the candidate sequence
\* run_crawl returns for them
CrawlList ==
    << [queries |-> NoQueries, returns |-> <<>>],
       [queries |-> NoQueries, returns |-> <<mA>>],
       [queries |-> Q1, returns |-> <<mB>>],
       [queries |-> NoQueries, returns |-> <<mC>>],
       [queries |-> Q1, returns |-> <<mD>>],
       [queries |-> NoQueries, returns |-> <<mA, mB>>],
       [queries |-> NoQueries, returns |-> <<mB, mC>>],
       [queries |-> Q1, returns |-> <<mC, mA>>],
       [queries |-> NoQueries, returns |-> <<mD, mC, mD>>],
       [queries |-> Q1, returns |-> <<mC, mE>>] >>

\* what str(e) may be when the collaborator raises
CrawlErrors == {"search API unavailable", "No module named 'crawler'"}

\* query strings of GET /api/mentions as <<status, location, priority>>;
\* PyNone is a missing parameter
FilterList ==
    << <<PyNone, PyNone, PyNone>>,
       <<"pending", PyNone, PyNone>>, <<"approved", PyNone, PyNone>>,
       <<"all", PyNone, PyNone>>, <<"", PyNone, PyNone>>,
       <<PyNone, "x", PyNone>>, <<PyNone, "all", PyNone>>,
       <<PyNone, PyNone, "high">>, <<PyNone, PyNone, "all">>,
       <<"pending", "x", PyNone>>, <<"pending", "all", "high">>,
       <<PyNone, "y", "high">>, <<"approved", "x", "all">>,
       <<"pending", "y", "low">> >>

\* the <mention_id> path segment
IdArgs == {"1", "2", "None", "7"}

\* JSON bodies of PATCH requests
PatchList ==
    << [status |-> "approved", tags |-> "t1"],
       [priority |-> "low", notes |-> "n1", url |-> "z", id |-> "9",
        capturedAt |-> "c9"],
       [location |-> "w"] >>

\* the 'limit' query parameter of GET /api/crawl/log
LimitInputs ==
    { [given |-> FALSE, v |-> 0] } \cup
    { [given |-> TRUE, v |-> n] : n \in {0, 1, 20, 21} }

(***************************************************************************)
(* Requests, responses and traces, all of one shape.                       *)
(***************************************************************************)
NoLimit == [given |-> FALSE, v |-> 0]

BlankRequest ==
    [op |-> "none", id |-> "", patch |-> <<>>, status |-> PyNone,
     location |-> PyNone, priority |-> PyNone, limit |-> NoLimit,
     queries |-> NoQueries, candidates |-> <<>>, raised |-> ""]

BlankStats ==
    [total |-> 0, pending |-> 0, approved |-> 0, deleted |-> 0,
     today_captured |-> 0, locations |-> {}, sources |-> {}]

BlankResp ==
    [code |-> 0, body |-> <<>>, error |-> "", message |-> "",
     success |-> FALSE, new_mentions |-> 0, total_found |-> 0, duplicates |-> 0,
     stats |-> BlankStats, count |-> 0, exported_at |-> 0]

\* the except branch of a handler: 500 with str(e)
server_error(e) == [BlankResp EXCEPT !.code = 500, !.error = e]

BlankTrace ==
    [loaded |-> <<>>, saved |-> "none", log_saved |-> "none", run_crawl |-> 0,
     entry |-> <<>>]

NoRun == [crawl |-> FALSE, candidates |-> <<>>, stored |-> <<>>]

\* a worker thread that serves no request, and the pool of them
Workers == 1..NWorkers

BlankWorker ==
    [pc |-> "idle", op |-> "none", id |-> "", candidates |-> <<>>,
     loaded |-> <<>>, mentions |-> <<>>, logs |-> AbsentFile, entry |-> <<>>,
     code |-> 0, result |-> <<>>, missed |-> {}, missedLog |-> {}]

BlankPool == [worker |-> [w \in Workers |-> BlankWorker], lastWriter |-> 0]

\* the server is between requests
Idle == request.op = "none"

Init ==
    /\ mentionsFile = AbsentFile
    /\ crawlLogFile = AbsentFile
    /\ storage = "ok"
    /\ now = 0
    /\ request = BlankRequest
    /\ resp = BlankResp
    /\ trace = BlankTrace
    /\ previous = NoRun
    /\ appended = <<>>
    /\ logWriteFailed = FALSE
    /\ pool = BlankPool

(***************************************************************************)
(* POST /api/crawl                                                         *)
(***************************************************************************)
\* mutant: the set of known urls is never filled
existing_urls_empty(existing_mentions) == {}

existing_urls(existing_mentions) ==
    { PyGet(existing_mentions[i], "url") : i \in 1..Len(existing_mentions) }

\* mutant: every candidate is admitted
unique_new_mentions_unfiltered(new_mentions, existing_mentions) == new_mentions

unique_new_mentions(new_mentions, existing_mentions) ==
    LET urls == existing_urls(existing_mentions)
    IN  SelectSeq(new_mentions, LAMBDA m : PyGet(m, "url") \notin urls)

\* mutant: the new mentions replace the existing ones
all_mentions_only_new(existing_mentions, new_mentions) ==
    unique_new_mentions(new_mentions, existing_mentions)

\* mutant: the new mentions are put in front of the existing ones
all_mentions_new_first(existing_mentions, new_mentions) ==
    unique_new_mentions(new_mentions, existing_mentions) \o existing_mentions

all_mentions(existing_mentions, new_mentions) ==
    existing_mentions \o unique_new_mentions(new_mentions, existing_mentions)

crawl_queries(q) == IF q.given THEN q.v ELSE DEFAULT_QUERIES

\* mutant: every candidate is counted as a duplicate
log_entry_all_duplicates(t, queries, new_mentions, unique) ==
    [timestamp |-> t, queries |-> queries,
     total_found |-> Len(new_mentions),
     new_unique |-> Len(unique),
     duplicates |-> Len(new_mentions)]

log_entry(t, queries, new_mentions, unique) ==
    [timestamp |-> t, queries |-> queries,
     total_found |-> Len(new_mentions),
     new_unique |-> Len(unique),
     duplicates |-> Len(new_mentions) - Len(unique)]

\* mutant: the summary carries every newly admitted mention
crawl_summary_unsliced(new_mentions, unique) ==
    [BlankResp EXCEPT !.code = 200, !.success = TRUE,
        !.new_mentions = Len(unique),
        !.total_found = Len(new_mentions),
        !.duplicates = Len(new_mentions) - Len(unique),
        !.body = unique]

crawl_summary(new_mentions, unique) ==
    [BlankResp EXCEPT !.code = 200, !.success = TRUE,
        !.new_mentions = Len(unique),
        !.total_found = Len(new_mentions),
        !.duplicates = Len(new_mentions) - Len(unique),
        !.body = PySliceTo(unique, PREVIEW)]

crawl_failure(e) ==
    [BlankResp EXCEPT !.code = 500, !.success = FALSE, !.error = e]

\* the handler from the return of run_crawl, which gave new_mentions, to
\* the summary
CrawlReturned(q, new_mentions) ==
    LET existing == load_mentions(mentionsFile)
        unique == unique_new_mentions(new_mentions, existing)
        merged == all_mentions(existing, new_mentions)
        entry == log_entry(now, crawl_queries(q), new_mentions, unique)
    IN  /\ Idle
        /\ mentionsFile' = save_mentions(mentionsFile, merged, storage)
        /\ crawlLogFile' = save_crawl_log(crawlLogFile, entry, storage)
        /\ now' = now + 1
        /\ request' = [BlankRequest EXCEPT !.op = "crawl", !.queries = q,
                          !.candidates = new_mentions]
        /\ resp' = crawl_summary(new_mentions, unique)
        /\ trace' = [loaded |-> existing, saved |-> storage,
                     log_saved |-> storage, run_crawl |-> 1, entry |-> entry]
        /\ UNCHANGED <<pool, storage, previous, appended, logWriteFailed>>

\* run_crawl returned new_mentions, within the bounds of the model
TriggerCrawl(q, new_mentions) ==
    /\ now < MaxTime
    /\ Len(all_mentions(load_mentions(mentionsFile), new_mentions)) <= MaxMentions
    /\ CrawlReturned(q, new_mentions)

\* mutant: the failed run is still entered in the crawl log
TriggerCrawlError_logged(q, e) ==
    LET entry == log_entry(now, crawl_queries(q), <<>>, <<>>)
    IN  /\ Idle
        /\ crawlLogFile' = save_crawl_log(crawlLogFile, entry, storage)
        /\ request' = [BlankRequest EXCEPT !.op = "crawl", !.queries = q,
                          !.raised = e]
        /\ resp' = [BlankResp EXCEPT !.code = 500, !.success = FALSE,
                       !.error = e]
        /\ trace' = [BlankTrace EXCEPT !.run_crawl = 1, !.entry = entry]
        /\ UNCHANGED <<pool, mentionsFile, storage, now, previous, appended,
                       logWriteFailed>>

\* run_crawl (or its import) raised e
TriggerCrawlError(q, e) ==
    /\ Idle
    /\ request' = [BlankRequest EXCEPT !.op = "crawl", !.queries = q,
                      !.raised = e]
    /\ resp' = crawl_failure(e)
    /\ trace' = [BlankTrace EXCEPT !.run_crawl = 1]
    /\ UNCHANGED <<pool, mentionsFile, crawlLogFile, storage, now, appended,
                   logWriteFailed, previous>>

trigger_crawl ==
    \/ \E c \in 1..Len(CrawlList) :
            TriggerCrawl(CrawlList[c].queries, CrawlList[c].returns)
    \/ \E q \in QueryInputs, e \in CrawlErrors : TriggerCrawlError(q, e)

(***************************************************************************)
(* GET /api/mentions                                                       *)
(***************************************************************************)
filtered(mentions, status, location, priority) ==
    LET by_status ==
            IF PyTruthy(status)
            THEN SelectSeq(mentions, LAMBDA m : PyGet(m, "status") = status)
            ELSE mentions
        by_location ==
            IF PyTruthy(location) /\ location # "all"
            THEN SelectSeq(by_status, LAMBDA m : PyGet(m, "location") = location)
            ELSE by_status
    IN  IF PyTruthy(priority) /\ priority # "all"
        THEN SelectSeq(by_location, LAMBDA m : PyGet(m, "priority") = priority)
        ELSE by_location

get_mentions ==
    \E f \in 1..Len(FilterList) :
        LET status == FilterList[f][1]
            location == FilterList[f][2]
            priority == FilterList[f][3]
            mentions == load_mentions(mentionsFile)
        IN  /\ Idle
            /\ request' = [BlankRequest EXCEPT !.op = "get_mentions",
                              !.status = status, !.location = location,
                              !.priority = priority]
            /\ resp' = IF load_raised(mentionsFile) # ""
                       THEN server_error(load_raised(mentionsFile))
                       ELSE [BlankResp EXCEPT !.code = 200,
                                !.body = filtered(mentions, status, location,
                                                  priority)]
            /\ trace' = [BlankTrace EXCEPT !.loaded = mentions]
            /\ UNCHANGED <<pool, mentionsFile, crawlLogFile, storage, now, appended,
                           logWriteFailed, previous>>

(***************************************************************************)
(* GET /api/mentions/<mention_id>                                          *)
(***************************************************************************)
not_found == [BlankResp EXCEPT !.code = 404, !.error = "Mention not found"]

\* next((m for m in mentions if str(m.get('id')) == mention_id), None) as a
\* list: the first match, or nothing
first_match(mentions, mention_id) ==
    PySliceTo(SelectSeq(mentions,
                        LAMBDA m : PyStr(PyGet(m, "id")) = mention_id), 1)

get_mention ==
    \E mention_id \in IdArgs :
        LET mentions == load_mentions(mentionsFile)
            mention == first_match(mentions, mention_id)
        IN  /\ Idle
            /\ request' = [BlankRequest EXCEPT !.op = "get_mention",
                              !.id = mention_id]
            /\ resp' = IF load_raised(mentionsFile) # ""
                       THEN server_error(load_raised(mentionsFile))
                       ELSE IF mention # <<>> /\ PyTruthyDict(mention[1])
                       THEN [BlankResp EXCEPT !.code = 200, !.body = mention]
                       ELSE not_found
            /\ trace' = [BlankTrace EXCEPT !.loaded = mentions]
            /\ UNCHANGED <<pool, mentionsFile, crawlLogFile, storage, now,
                           appended, logWriteFailed, previous>>

(***************************************************************************)
(* PATCH /api/mentions/<mention_id>                                        *)
(***************************************************************************)
\* index of the first mention whose str(id) is mention_id; 0 stands for None
mention_index(mentions, mention_id) ==
    LET hits == { i \in 1..Len(mentions) :
                    PyStr(PyGet(mentions[i], "id")) = mention_id }
    IN  IF hits = {} THEN 0 ELSE CHOOSE i \in hits : \A j \in hits : i <= j

allowed_fields == <<"status", "tags", "notes", "priority">>

\* mutant: every field of the patch is copied
copy_every_field(m, data, k) ==
    [x \in (DOMAIN m) \cup (DOMAIN data) |->
        IF x \in DOMAIN data THEN data[x] ELSE m[x]]

RECURSIVE copy_allowed(_, _, _)
copy_allowed(m, data, k) ==
    IF k > Len(allowed_fields) THEN m
    ELSE LET field == allowed_fields[k]
         IN  copy_allowed(IF field \in DOMAIN data
                            THEN PySetItem(m, field, data[field])
                            ELSE m,
                          data, k + 1)

updated(m, data, t) == PySetItem(copy_allowed(m, data, 1), "updated_at", t)

UpdateFound(mention_id, data) ==
    LET mentions == load_mentions(mentionsFile)
        i == mention_index(mentions, mention_id)
        after == [mentions EXCEPT ![i] = updated(mentions[i], data, now)]
    IN  /\ Idle
        /\ i # 0
        /\ now < MaxTime
        /\ mentionsFile' = save_mentions(mentionsFile, after, storage)
        /\ now' = now + 1
        /\ request' = [BlankRequest EXCEPT !.op = "update", !.id = mention_id,
                          !.patch = data]
        /\ resp' = [BlankResp EXCEPT !.code = 200, !.body = <<after[i]>>]
        /\ trace' = [BlankTrace EXCEPT !.loaded = mentions, !.saved = storage]
        /\ UNCHANGED <<pool, crawlLogFile, storage, appended, logWriteFailed, previous>>

UpdateNotFound(mention_id, data) ==
    LET mentions == load_mentions(mentionsFile)
    IN  /\ Idle
        /\ mention_index(mentions, mention_id) = 0
        /\ request' = [BlankRequest EXCEPT !.op = "update", !.id = mention_id,
                          !.patch = data]
        /\ resp' = not_found
        /\ trace' = [BlankTrace EXCEPT !.loaded = mentions]
        /\ UNCHANGED <<pool, mentionsFile, crawlLogFile, storage, now, appended,
                       logWriteFailed, previous>>

update_mention ==
    \E mention_id \in IdArgs, p \in 1..Len(PatchList) :
        \/ UpdateFound(mention_id, PatchList[p])
        \/ UpdateNotFound(mention_id, PatchList[p])

(***************************************************************************)
(* DELETE /api/mentions/<mention_id>                                       *)
(***************************************************************************)
\* mutant: only the first mention with the id is dropped
remaining_without_first(mentions, mention_id) ==
    LET i == mention_index(mentions, mention_id)
    IN  IF i = 0 THEN mentions
        ELSE SubSeq(mentions, 1, i - 1) \o SubSeq(mentions, i + 1, Len(mentions))

remaining(mentions, mention_id) ==
    SelectSeq(mentions, LAMBDA m : PyStr(PyGet(m, "id")) # mention_id)

DeleteFound(mention_id) ==
    LET mentions == load_mentions(mentionsFile)
        rest == remaining(mentions, mention_id)
    IN  /\ Idle
        /\ Len(rest) < Len(mentions)
        /\ mentionsFile' = save_mentions(mentionsFile, rest, storage)
        /\ request' = [BlankRequest EXCEPT !.op = "delete", !.id = mention_id]
        /\ resp' = [BlankResp EXCEPT !.code = 200,
                       !.message = "Mention deleted successfully"]
        /\ trace' = [BlankTrace EXCEPT !.loaded = mentions, !.saved = storage]
        /\ UNCHANGED <<pool, crawlLogFile, storage, now, appended, logWriteFailed, previous>>

\* mutant: the unchanged list is written back before reporting not-found
DeleteNotFound_saves(mention_id) ==
    LET mentions == load_mentions(mentionsFile)
    IN  /\ Idle
        /\ ~(Len(remaining(mentions, mention_id)) < Len(mentions))
        /\ mentionsFile' = save_mentions(mentionsFile, mentions, storage)
        /\ request' = [BlankRequest EXCEPT !.op = "delete", !.id = mention_id]
        /\ resp' = not_found
        /\ trace' = [BlankTrace EXCEPT !.loaded = mentions, !.saved = storage]
        /\ UNCHANGED <<pool, crawlLogFile, storage, now, appended, logWriteFailed,
                       previous>>

DeleteNotFound(mention_id) ==
    LET mentions == load_mentions(mentionsFile)
    IN  /\ Idle
        /\ ~(Len(remaining(mentions, mention_id)) < Len(mentions))
        /\ request' = [BlankRequest EXCEPT !.op = "delete", !.id = mention_id]
        /\ resp' = not_found
        /\ trace' = [BlankTrace EXCEPT !.loaded = mentions]
        /\ UNCHANGED <<pool, mentionsFile, crawlLogFile, storage, now, appended,
                       logWriteFailed, previous>>

delete_mention ==
    \E mention_id \in IdArgs :
        \/ DeleteFound(mention_id)
        \/ DeleteNotFound(mention_id)

(***************************************************************************)
(* GET /api/crawl/log                                                      *)
(***************************************************************************)
\* request.args.get('limit', 20, type=int)
limit_arg(l) == IF l.given THEN l.v ELSE DEFAULT_LIMIT

recent(logs, l) == PySliceFrom(logs, -limit_arg(l))

get_crawl_log ==
    \E l \in LimitInputs :
        /\ Idle
        /\ request' = [BlankRequest EXCEPT !.op = "get_crawl_log", !.limit = l]
        /\ resp' = IF load_raised(crawlLogFile) # ""
                   THEN server_error(load_raised(crawlLogFile))
                   ELSE [BlankResp EXCEPT !.code = 200,
                            !.body = recent(load_crawl_log(crawlLogFile), l)]
        /\ trace' = BlankTrace
        /\ UNCHANGED <<pool, mentionsFile, crawlLogFile, storage, now, appended,
                       logWriteFailed, previous>>

(***************************************************************************)
(* GET /api/stats                                                          *)
(***************************************************************************)
\* datetime.now().date(): the clock passes midnight after its second reading
today(t) == IF t < 2 THEN "day1" ELSE "day2"

\* datetime.fromisoformat(v).date() for the capturedAt values in use: "c1"
\* is a timestamp of day1, "c2" one of the day before, "2000-01-01" is the
\* handler's default; anything else (other text, null, a number) raises
fromisoformat_date(v) ==
    CASE v = "c1" -> "day1"
      [] v = "c2" -> "day0"
      [] v = "2000-01-01" -> "2000-01-01"
      [] OTHER -> "ValueError"

\* mutant: a mention without capturedAt is given the current date
today_captures_default_now(mentions, t) ==
    Cardinality({ i \in 1..Len(mentions) :
        fromisoformat_date(PyGetOr(mentions[i], "capturedAt", "c1")) = today(t) })

\* the loop of get_stats; a date that raises is skipped
today_captures(mentions, t) ==
    Cardinality({ i \in 1..Len(mentions) :
        fromisoformat_date(PyGetOr(mentions[i], "capturedAt", "2000-01-01"))
            = today(t) })

count_status(mentions, status) ==
    Len(SelectSeq(mentions, LAMBDA m : PyGet(m, "status") = status))

\* set(m.get(k) for m in mentions if m.get(k))
distinct_values(mentions, k) ==
    { PyGet(mentions[i], k) : i \in { j \in 1..Len(mentions) :
                                        PyTruthy(PyGet(mentions[j], k)) } }

stats(mentions, t) ==
    [total |-> Len(mentions),
     pending |-> count_status(mentions, "pending"),
     approved |-> count_status(mentions, "approved"),
     deleted |-> count_status(mentions, "deleted"),
     today_captured |-> today_captures(mentions, t),
     locations |-> distinct_values(mentions, "location"),
     sources |-> distinct_values(mentions, "source")]

get_stats ==
    LET mentions == load_mentions(mentionsFile)
    IN  /\ Idle
        /\ request' = [BlankRequest EXCEPT !.op = "get_stats"]
        /\ resp' = IF load_raised(mentionsFile) # ""
                   THEN server_error(load_raised(mentionsFile))
                   ELSE [BlankResp EXCEPT !.code = 200,
                            !.stats = stats(mentions, now)]
        /\ trace' = [BlankTrace EXCEPT !.loaded = mentions]
        /\ UNCHANGED <<pool, mentionsFile, crawlLogFile, storage, now,
                       appended, logWriteFailed, previous>>

(***************************************************************************)
(* GET /api/export                                                         *)
(***************************************************************************)
\* the 'status' query parameter of GET /api/export
ExportInputs == {PyNone, "approved", ""}

exported(mentions, status_filter) ==
    IF PyTruthy(status_filter)
    THEN SelectSeq(mentions, LAMBDA m : PyGet(m, "status") = status_filter)
    ELSE mentions

export_data ==
    \E status_filter \in ExportInputs :
        LET mentions == load_mentions(mentionsFile)
            out == exported(mentions, status_filter)
        IN  /\ Idle
            /\ request' = [BlankRequest EXCEPT !.op = "export",
                              !.status = status_filter]
            /\ resp' = IF load_raised(mentionsFile) # ""
                       THEN server_error(load_raised(mentionsFile))
                       ELSE [BlankResp EXCEPT !.code = 200, !.body = out,
                                !.count = Len(out), !.exported_at = now]
            /\ trace' = [BlankTrace EXCEPT !.loaded = mentions]
            /\ UNCHANGED <<pool, mentionsFile, crawlLogFile, storage, now,
                           appended, logWriteFailed, previous>>

(***************************************************************************)
(* Environment and specifications.                                         *)
(***************************************************************************)
\* the data directory stops or resumes accepting writes
StorageChange ==
    /\ Idle
    /\ \E st \in StorageStates \ {storage} : storage' = st
    /\ UNCHANGED <<pool, mentionsFile, crawlLogFile, now, request, resp, trace,
                   previous, appended, logWriteFailed>>

\* the response goes back to the caller; requests are served one at a time
Respond ==
    /\ ~Idle
    /\ previous' =
          IF request.op = "crawl" /\ resp.success /\ trace.saved = "ok"
          THEN [crawl |-> TRUE, candidates |-> request.candidates,
                stored |-> load_mentions(mentionsFile)]
          ELSE NoRun
    /\ request' = BlankRequest
    /\ resp' = BlankResp
    /\ trace' = BlankTrace
    /\ UNCHANGED <<pool, mentionsFile, crawlLogFile, storage, now, appended,
                   logWriteFailed>>

Next ==
    \/ trigger_crawl
    \/ get_mentions
    \/ get_mention
    \/ get_stats
    \/ export_data
    \/ update_mention
    \/ delete_mention
    \/ get_crawl_log
    \/ StorageChange
    \/ Respond

Spec == Init /\ [][Next]_vars

\* save_crawl_log called on its own, one entry per clock reading, until a
\* write of the log fails
AppendLog ==
    LET entry == log_entry(now, DEFAULT_QUERIES, <<>>, <<>>)
    IN  /\ Idle
        /\ Len(appended) < MaxAppends
        /\ ~logWriteFailed
        /\ crawlLogFile' = save_crawl_log(crawlLogFile, entry, storage)
        /\ appended' = Append(appended, entry)
        /\ logWriteFailed' = (storage # "ok")
        /\ now' = now + 1
        /\ request' = [BlankRequest EXCEPT !.op = "save_crawl_log"]
        /\ resp' = BlankResp
        /\ trace' = [BlankTrace EXCEPT !.log_saved = storage]
        /\ UNCHANGED <<pool, mentionsFile, storage, previous>>

NextLog ==
    \/ AppendLog
    \/ get_crawl_log
    \/ StorageChange
    \/ Respond

SpecLog == Init /\ [][NextLog]_vars

\* crawls that return long candidate sequences: the candidates are taken
\* in a row from a pool of mentions with different urls
PoolUrls ==
    << "u01", "u02", "u03", "u04", "u05", "u06", "u07", "u08", "u09", "u10",
       "u11", "u12", "u13", "u14", "u15", "u16", "u17" >>

PoolStarts == {1, 4}

pool_batch(from, n) ==
    [k \in 1..n |-> [id |-> PoolUrls[from + k - 1],
                     url |-> PoolUrls[from + k - 1], status |-> "pending"]]

trigger_crawl_long ==
    \E from \in PoolStarts, n \in 1..MaxBatch :
        /\ now < MaxTime
        /\ from + n - 1 <= Len(PoolUrls)
        /\ CrawlReturned(NoQueries, pool_batch(from, n))

NextPreview ==
    \/ trigger_crawl_long
    \/ Respond

SpecPreview == Init /\ [][NextPreview]_vars

(***************************************************************************)
(* Overlapping requests.  app.run serves each request on a thread of its   *)
(* own and no handler takes a lock, so between a handler's load and its    *)
(* save other handlers may load and save.  A worker does the in-memory     *)
(* part of its handler together with the load that precedes it.            *)
(***************************************************************************)
\* mention stores the overlapping requests may start from
ConcStores ==
    { [state |-> "ok", data |-> <<mA>>], [state |-> "ok", data |-> <<mA, mC>>] }

\* their inputs
ConcUpdateIds == {"1", "7"}
ConcDeleteIds == {"1", "2"}
ConcPatch == PatchList[1]
ConcBatches == { <<mC>>, <<mB, mE>> }

\* the others that hold a snapshot taken before the write w is making
Overtaken(w, at) ==
    [v \in Workers |->
        IF v # w /\ pool.worker[v].pc = at
        THEN [pool.worker[v] EXCEPT
                 !.missed = IF at = "save" THEN @ \cup {w} ELSE @,
                 !.missedLog = IF at = "save_log" THEN @ \cup {w} ELSE @]
        ELSE pool.worker[v]]

\* update_mention up to its save: load, look up, patch the copy in memory
update_mention_load(w, mention_id, data) ==
    LET mentions == load_mentions(mentionsFile)
        i == mention_index(mentions, mention_id)
    IN  /\ pool.worker[w].pc = "idle"
        /\ IF i = 0
           THEN /\ pool' = [pool EXCEPT !.worker[w] =
                       [@ EXCEPT !.pc = "done", !.op = "update",
                           !.id = mention_id, !.loaded = mentions,
                           !.code = 404]]
                /\ now' = now
           ELSE /\ pool' = [pool EXCEPT !.worker[w] =
                       [@ EXCEPT !.pc = "save", !.op = "update",
                           !.id = mention_id, !.loaded = mentions,
                           !.mentions = [mentions EXCEPT
                               ![i] = updated(mentions[i], data, now)],
                           !.result = updated(mentions[i], data, now)]]
                /\ now' = now + 1
        /\ UNCHANGED <<mentionsFile, crawlLogFile, storage, request, resp,
                       trace, previous, appended, logWriteFailed>>

\* delete_mention up to its save
delete_mention_load(w, mention_id) ==
    LET mentions == load_mentions(mentionsFile)
        rest == remaining(mentions, mention_id)
    IN  /\ pool.worker[w].pc = "idle"
        /\ pool' = [pool EXCEPT !.worker[w] =
               IF Len(rest) < Len(mentions)
               THEN [@ EXCEPT !.pc = "save", !.op = "delete",
                       !.id = mention_id, !.loaded = mentions,
                       !.mentions = rest]
               ELSE [@ EXCEPT !.pc = "done", !.op = "delete",
                       !.id = mention_id, !.loaded = mentions, !.code = 404]]
        /\ UNCHANGED <<mentionsFile, crawlLogFile, storage, now, request, resp,
                       trace, previous, appended, logWriteFailed>>

\* trigger_crawl up to its save_mentions: run_crawl has returned
\* new_mentions, the store is loaded and merged in memory
trigger_crawl_load(w, new_mentions) ==
    LET existing == load_mentions(mentionsFile)
    IN  /\ pool.worker[w].pc = "idle"
        /\ pool' = [pool EXCEPT !.worker[w] =
               [@ EXCEPT !.pc = "save", !.op = "crawl",
                   !.candidates = new_mentions, !.loaded = existing,
                   !.mentions = all_mentions(existing, new_mentions)]]
        /\ UNCHANGED <<mentionsFile, crawlLogFile, storage, now, request, resp,
                       trace, previous, appended, logWriteFailed>>

\* mutant: the worker reads the store again when it saves, as it would
\* under a lock held from load to save
save_mentions_step_reloads(w) ==
    LET me == pool.worker[w]
        fresh == load_mentions(mentionsFile)
        content == CASE me.op = "crawl" -> all_mentions(fresh, me.candidates)
                     [] me.op = "delete" -> remaining(fresh, me.id)
                     [] OTHER -> me.mentions
    IN  /\ me.pc = "save"
        /\ mentionsFile' = save_mentions(mentionsFile, content, storage)
        /\ pool' = [worker |-> [Overtaken(w, "save") EXCEPT ![w] =
                       IF me.op = "crawl"
                       THEN [me EXCEPT !.pc = "load_log"]
                       ELSE [me EXCEPT !.pc = "done", !.code = 200]],
                    lastWriter |-> w]
        /\ UNCHANGED <<crawlLogFile, storage, now, request, resp, trace,
                       previous, appended, logWriteFailed>>

\* the save_mentions call of update_mention, delete_mention and
\* trigger_crawl: the list held in memory replaces the file
save_mentions_step(w) ==
    LET me == pool.worker[w]
    IN  /\ me.pc = "save"
        /\ mentionsFile' = save_mentions(mentionsFile, me.mentions, storage)
        /\ pool' = [worker |-> [Overtaken(w, "save") EXCEPT ![w] =
                       IF me.op = "crawl"
                       THEN [me EXCEPT !.pc = "load_log"]
                       ELSE [me EXCEPT !.pc = "done", !.code = 200]],
                    lastWriter |-> w]
        /\ UNCHANGED <<crawlLogFile, storage, now, request, resp, trace,
                       previous, appended, logWriteFailed>>

\* trigger_crawl builds its log entry; save_crawl_log loads the log
save_crawl_log_load(w) ==
    LET me == pool.worker[w]
        unique == unique_new_mentions(me.candidates, me.loaded)
    IN  /\ me.pc = "load_log"
        /\ pool' = [pool EXCEPT !.worker[w] =
               [@ EXCEPT !.pc = "save_log", !.logs = crawlLogFile,
                   !.entry = log_entry(now, DEFAULT_QUERIES, me.candidates,
                                       unique)]]
        /\ now' = now + 1
        /\ UNCHANGED <<mentionsFile, crawlLogFile, storage, request, resp,
                       trace, previous, appended, logWriteFailed>>

\* save_crawl_log appends to the list it loaded and writes it; the run
\* reports success
save_crawl_log_write(w) ==
    LET me == pool.worker[w]
    IN  /\ me.pc = "save_log"
        /\ crawlLogFile' = save_crawl_log(me.logs, me.entry, storage)
        /\ pool' = [pool EXCEPT !.worker =
               [Overtaken(w, "save_log") EXCEPT ![w] =
                   [me EXCEPT !.pc = "done", !.code = 200]]]
        /\ UNCHANGED <<mentionsFile, storage, now, request, resp, trace,
                       previous, appended, logWriteFailed>>

InitConc ==
    /\ mentionsFile \in ConcStores
    /\ crawlLogFile = AbsentFile
    /\ storage = "ok"
    /\ now = 0
    /\ request = BlankRequest
    /\ resp = BlankResp
    /\ trace = BlankTrace
    /\ previous = NoRun
    /\ appended = <<>>
    /\ logWriteFailed = FALSE
    /\ pool = BlankPool

NextConc ==
    \/ \E w \in Workers, mention_id \in ConcUpdateIds :
           update_mention_load(w, mention_id, ConcPatch)
    \/ \E w \in Workers, mention_id \in ConcDeleteIds :
           delete_mention_load(w, mention_id)
    \/ \E w \in Workers, new_mentions \in ConcBatches :
           trigger_crawl_load(w, new_mentions)
    \/ \E w \in Workers : save_mentions_step(w)
    \/ \E w \in Workers : save_crawl_log_load(w)
    \/ \E w \in Workers : save_crawl_log_write(w)

SpecConc == InitConc /\ [][NextConc]_vars

(***************************************************************************)
(* Properties.  The persisted mention store is what load_mentions reads.   *)
(***************************************************************************)
Stored == load_mentions(mentionsFile)

StoredLog == load_crawl_log(crawlLogFile)

\* an ingestion run went through to its summary
CrawlRan == request.op = "crawl" /\ resp.success

HasUrl(m) == PyGet(m, "url") # PyNone /\ PyGet(m, "url") # ""

NoSharedUrl(ms) ==
    \A i, j \in 1..Len(ms) :
        (i # j /\ HasUrl(ms[i])) => PyGet(ms[i], "url") # PyGet(ms[j], "url")

KnownUrl(m, E) == \E i \in 1..Len(E) : PyGet(E[i], "url") = PyGet(m, "url")

\* the subsequence of I whose url is the url of no mention of E
RECURSIVE NotKnown(_, _)
NotKnown(I, E) ==
    IF Len(I) = 0 THEN <<>>
    ELSE IF KnownUrl(Head(I), E) THEN NotKnown(Tail(I), E)
         ELSE <<Head(I)>> \o NotKnown(Tail(I), E)

\* C1: a store with no two mentions sharing a non-empty url before an
\* ingestion run has none after it, whatever candidates the collaborator
\* returned.
C1_UrlsStayUnique ==
    (CrawlRan /\ NoSharedUrl(trace.loaded)) => NoSharedUrl(Stored)

\* C2: an ingestion run (whose write succeeds) persists E followed by the
\* candidates whose url is no url of E, in the candidates' order; E is kept
\* unchanged and in place.
C2_MergeIsExistingThenNew ==
    (CrawlRan /\ trace.saved = "ok") =>
        LET E == trace.loaded
            I == request.candidates
        IN  /\ Stored = E \o NotKnown(I, E)
            /\ \A i \in 1..Len(E) : Stored[i] = E[i]
            /\ resp.new_mentions = Len(NotKnown(I, E))

C2_Witness ==
    /\ CrawlRan
    /\ trace.saved = "ok"
    /\ Len(trace.loaded) > 0
    /\ resp.new_mentions > 0
    /\ resp.duplicates > 0

\* C3: an ingestion run that directly follows a run with the same candidates
\* (both writes succeeding) admits nothing, counts every candidate as a
\* duplicate and leaves the store as the first run left it.
C3_SecondRunAdmitsNothing ==
    ( /\ CrawlRan
      /\ trace.saved = "ok"
      /\ previous.crawl
      /\ previous.candidates = request.candidates ) =>
        /\ resp.new_mentions = 0
        /\ resp.duplicates = Len(request.candidates)
        /\ Stored = previous.stored

C3_Witness ==
    /\ CrawlRan
    /\ trace.saved = "ok"
    /\ previous.crawl
    /\ previous.candidates = request.candidates
    /\ Len(request.candidates) = 2
    /\ Len(previous.stored) = 2

\* C4: the persisted crawl log never holds more than 100 entries, and once
\* more than 100 entries were appended (every write succeeding) it is the
\* last 100 of them, oldest first.
C4_LogKeepsLast100 ==
    /\ Len(StoredLog) <= 100
    /\ (~logWriteFailed /\ Len(appended) > 100) =>
           StoredLog = SubSeq(appended, Len(appended) - 99, Len(appended))

C4_Witness ==
    /\ request.op = "save_crawl_log"
    /\ ~logWriteFailed
    /\ Len(appended) > 101

\* a filter restricts when it is supplied and is not "all"
Active(v) == v # PyNone /\ v # "all"

Satisfies(m, status, location, priority) ==
    /\ Active(status) => PyGet(m, "status") = status
    /\ Active(location) => PyGet(m, "location") = location
    /\ Active(priority) => PyGet(m, "priority") = priority

\* C5: list-with-filters returns the stored mentions, in stored order, that
\* equal every filter that is supplied and is not "all".
C5_ListIsExactlyTheMatches ==
    request.op = "get_mentions" =>
        resp.body = SelectSeq(Stored, LAMBDA m :
                        Satisfies(m, request.status, request.location,
                                  request.priority))

IdMatches(m, id) == PyStr(PyGet(m, "id")) = id

NoMatch(ms, id) == \A i \in 1..Len(ms) : ~IdMatches(ms[i], id)

\* the first mention the id names
Target(ms, id) ==
    CHOOSE i \in 1..Len(ms) :
        IdMatches(ms[i], id) /\ \A j \in 1..(i - 1) : ~IdMatches(ms[j], id)

Mutable == {"status", "tags", "notes", "priority"}

\* C6: update-by-id on an existing id succeeds, and (its write succeeding)
\* changes nothing but the target's patched fields of the allow-list and
\* updated_at: its other fields, the patch's other fields and every other
\* mention stay as they were, in place.
C6_UpdateChangesOnlyAllowedFields ==
    (request.op = "update" /\ ~NoMatch(trace.loaded, request.id)) =>
        /\ resp.code = 200
        /\ trace.saved = "ok" =>
            LET before == trace.loaded
                t == Target(before, request.id)
                may == (Mutable \cap DOMAIN request.patch) \cup {"updated_at"}
            IN  /\ Len(Stored) = Len(before)
                /\ \A j \in 1..Len(before) : j # t => Stored[j] = before[j]
                /\ (DOMAIN Stored[t]) \ may = (DOMAIN before[t]) \ may
                /\ \A k \in (DOMAIN before[t]) \ may :
                       Stored[t][k] = before[t][k]
                /\ "updated_at" \in DOMAIN Stored[t]

C6_Witness ==
    /\ request.op = "update"
    /\ resp.code = 200
    /\ trace.saved = "ok"
    /\ Len(trace.loaded) = 2
    /\ {"url", "id", "priority"} \subseteq DOMAIN request.patch
    /\ PyGet(Stored[Target(trace.loaded, request.id)], "priority") = "low"

\* C7: update-by-id and delete-by-id with an id no stored mention has (ids
\* compared as strings) answer not-found and leave the mention file as it is.
C7_MissingIdWritesNothing ==
    [][ ( /\ Idle
          /\ request'.op \in {"update", "delete"}
          /\ NoMatch(Stored, request'.id) ) =>
            /\ resp'.code = 404
            /\ resp'.error = "Mention not found"
            /\ mentionsFile' = mentionsFile ]_vars

C7_Witness ==
    /\ request.op = "delete"
    /\ resp.code = 404
    /\ Len(Stored) > 0
    /\ storage = "write_fails"

\* C8: when the crawl collaborator raises, the run reports failure with the
\* error's description, calls the collaborator once and leaves the mention
\* file and the crawl log as they are.
C8_CollaboratorFailureWritesNothing ==
    [][ ( /\ Idle
          /\ request'.op = "crawl"
          /\ request'.raised # "" ) =>
            /\ resp'.code = 500
            /\ ~resp'.success
            /\ resp'.error = request'.raised
            /\ trace'.run_crawl = 1
            /\ mentionsFile' = mentionsFile
            /\ crawlLogFile' = crawlLogFile ]_vars

C8_Witness ==
    /\ request.op = "crawl"
    /\ request.raised # ""
    /\ ~resp.success
    /\ Len(Stored) > 0
    /\ Len(StoredLog) > 0

\* C9: an ingestion run whose write of the merged collection fails reports
\* failure, and a run that reports success has persisted the whole merge.
C9_AllOrNothing ==
    request.op = "crawl" =>
        /\ trace.saved \in {"open_fails", "write_fails"} => ~resp.success
        /\ resp.success =>
               Stored = trace.loaded \o NotKnown(request.candidates, trace.loaded)

Min(a, b) == IF a < b THEN a ELSE b

\* C10: get-recent-crawl-log(limit), limit >= 0, returns the last
\* min(limit, len(log)) entries, oldest first; no limit means 20.
C10_RecentIsLastLimitEntries ==
    (request.op = "get_crawl_log" /\ (request.limit.given => request.limit.v >= 0)) =>
        LET limit == IF request.limit.given THEN request.limit.v ELSE 20
            k == Min(limit, Len(StoredLog))
        IN  resp.body = SubSeq(StoredLog, Len(StoredLog) - k + 1, Len(StoredLog))

\* the entry the current ingestion run handed to save_crawl_log
LastAppended == trace.entry

CountsAddUp(e) ==
    /\ e.total_found = e.new_unique + e.duplicates
    /\ e.total_found >= 0
    /\ e.new_unique >= 0
    /\ e.duplicates >= 0

\* C11: every entry of the persisted crawl log has
\* total_found = new_unique + duplicates with no negative count; the entry an
\* ingestion run appends has total_found = the number of candidates the
\* collaborator returned and new_unique = the number of mentions the run
\* added to the store (its write succeeding).
C11_LogCountsAddUp ==
    /\ \A i \in 1..Len(StoredLog) : CountsAddUp(StoredLog[i])
    /\ CrawlRan =>
          /\ CountsAddUp(LastAppended)
          /\ LastAppended.total_found = Len(request.candidates)
          /\ trace.log_saved = "ok" => StoredLog[Len(StoredLog)] = LastAppended
          /\ trace.saved = "ok" =>
                LastAppended.new_unique = Len(Stored) - Len(trace.loaded)

C11_Witness ==
    /\ CrawlRan
    /\ trace.saved = "ok"
    /\ trace.log_saved = "ok"
    /\ Len(StoredLog) = 2
    /\ StoredLog[2].new_unique = 1
    /\ StoredLog[2].duplicates = 1

\* update worker u answered success, and worker r, which loaded the store
\* before u saved, has saved after u and was the last to save
Overwritten(u, r) ==
    /\ u # r
    /\ pool.worker[u].op = "update"
    /\ pool.worker[u].pc = "done"
    /\ pool.worker[u].code = 200
    /\ pool.worker[r].op \in {"delete", "crawl"}
    /\ u \in pool.worker[r].missed
    /\ pool.lastWriter = r

\* C12: handlers load and save the mention file with no lock, the last
\* writer winning: when a delete or an ingestion run loads before an update
\* saves and saves after it, the update has answered success and the mention
\* it returned is nowhere in the store.
C12_LastWriterDropsUpdate ==
    \A u, r \in Workers :
        Overwritten(u, r) =>
            \A i \in 1..Len(Stored) : Stored[i] # pool.worker[u].result

C12_Witness ==
    \E u, r \in Workers :
        /\ Overwritten(u, r)
        /\ pool.worker[r].op = "crawl"
        /\ pool.worker[r].pc = "done"
        /\ ~NoMatch(Stored, pool.worker[u].id)
        /\ "updated_at" \in DOMAIN pool.worker[u].result
        /\ \A i \in 1..Len(Stored) : "updated_at" \notin DOMAIN Stored[i]

\* the same mention as far as id, url and capturedAt go
SameIdentity(m, n) ==
    \A k \in {"id", "url", "capturedAt"} :
        /\ (k \in DOMAIN m) = (k \in DOMAIN n)
        /\ PyGet(m, k) = PyGet(n, k)

\* C13: list, get-by-id, update-by-id, get-stats, export and ingestion remove
\* no mention: every mention the handler loaded is in the store afterwards
\* with the id, url and capturedAt it had (unless a write broke off and left
\* a file that does not parse).
C13_OnlyDeleteRemoves ==
    ( /\ request.op \in {"get_mentions", "get_mention", "update", "get_stats",
                         "export", "crawl"}
      /\ trace.saved # "write_fails" ) =>
        /\ Len(Stored) >= Len(trace.loaded)
        /\ \A i \in 1..Len(trace.loaded) :
               \E j \in 1..Len(Stored) : SameIdentity(trace.loaded[i], Stored[j])

C13_Witness ==
    /\ request.op = "crawl"
    /\ resp.success
    /\ trace.saved = "ok"
    /\ Len(trace.loaded) = 1
    /\ resp.duplicates = 1
    /\ Len(Stored) = 2
    /\ SameIdentity(trace.loaded[1], Stored[1])

\* the file holds nothing a loader can return: it is absent or does not parse
Unreadable(file) == file.state \in {"absent", "corrupt"}

StoredNext == load_mentions(mentionsFile')

\* the step is an ingestion run one of whose candidates has the id
Recreates(id) ==
    /\ request'.op = "crawl"
    /\ \E i \in 1..Len(request'.candidates) :
           IdMatches(request'.candidates[i], id)

\* C15: once delete-by-id has succeeded (its write carried out) no stored
\* mention has the id; no later operation other than an ingestion run with a
\* candidate of that id brings one back (a step that leaves the file as it
\* is cannot); and get-by-id of an id no stored mention has answers not-found.
C15_DeletedStaysGone ==
    [][ \A id \in IdArgs :
          /\ ( /\ Idle
               /\ request'.op = "delete"
               /\ request'.id = id
               /\ resp'.code = 200
               /\ trace'.saved = "ok" ) => NoMatch(StoredNext, id)
          /\ ( /\ mentionsFile' # mentionsFile
               /\ NoMatch(Stored, id)
               /\ ~Recreates(id) ) => NoMatch(StoredNext, id)
          /\ ( /\ Idle
               /\ request'.op = "get_mention"
               /\ request'.id = id
               /\ NoMatch(Stored, id) ) =>
                 (resp'.code = 404 /\ resp'.error = "Mention not found") ]_vars

C15_Witness ==
    /\ request.op = "delete"
    /\ resp.code = 200
    /\ trace.saved = "ok"
    /\ Len(trace.loaded) = 2
    /\ IdMatches(trace.loaded[1], request.id)
    /\ IdMatches(trace.loaded[2], request.id)
    /\ NoMatch(Stored, request.id)

\* C16: the summary of a successful ingestion run carries the first
\* min(10, new_unique) newly admitted mentions in the order of admission, so
\* never more than 10, while its counts are those of the whole run.
C16_SummaryShowsFirstTen ==
    CrawlRan =>
        LET admitted == NotKnown(request.candidates, trace.loaded)
            k == Min(10, Len(admitted))
        IN  /\ Len(resp.body) <= 10
            /\ resp.body = SubSeq(admitted, 1, k)
            /\ trace.saved = "ok" =>
                  \A i \in 1..k : resp.body[i] = Stored[Len(trace.loaded) + i]
            /\ resp.new_mentions = Len(admitted)
            /\ resp.total_found = Len(request.candidates)
            /\ resp.duplicates = Len(request.candidates) - Len(admitted)

C16_Witness ==
    /\ CrawlRan
    /\ resp.new_mentions = 11
    /\ resp.duplicates = 1
    /\ resp.total_found = 12
    /\ Len(resp.body) = 10
    /\ Len(Stored) = 12

\* the mention has a capturedAt that is a timestamp of day d
CapturedOn(m, d) ==
    /\ "capturedAt" \in DOMAIN m
    /\ fromisoformat_date(m.capturedAt) = d

\* C17: get-stats answers with total = the number of stored mentions and
\* today_captured = the number of them whose capturedAt is a timestamp of the
\* current date; a mention captured another day, without capturedAt or with
\* one that is no timestamp is left out, and the request does not fail.
C17_StatsCountToday ==
    request.op = "get_stats" =>
        /\ resp.code = 200
        /\ resp.stats.total = Len(Stored)
        /\ resp.stats.today_captured =
              Cardinality({ i \in 1..Len(Stored) : CapturedOn(Stored[i], today(now)) })

C17_Witness ==
    /\ request.op = "get_stats"
    /\ resp.stats.total = 2
    /\ resp.stats.today_captured = 1
    /\ \E i \in 1..Len(Stored) :
           /\ "capturedAt" \in DOMAIN Stored[i]
           /\ fromisoformat_date(Stored[i].capturedAt) = "ValueError"

\* ms without its i-th element
Without(ms, i) == SubSeq(ms, 1, i - 1) \o SubSeq(ms, i + 1, Len(ms))

\* C18: a successful delete-by-id (its write carried out) removes exactly one
\* mention, the first whose str(id) is the id given, and persists the others
\* unchanged and in order.  Stated for stores in which no two mentions share
\* a url.
C18_DeleteRemovesOnlyTheFirst ==
    ( /\ request.op = "delete"
      /\ resp.code = 200
      /\ trace.saved = "ok"
      /\ NoSharedUrl(trace.loaded) ) =>
        /\ Len(Stored) = Len(trace.loaded) - 1
        /\ Stored = Without(trace.loaded, Target(trace.loaded, request.id))

AllUrlsDiffer(ms) ==
    \A i, j \in 1..Len(ms) : i # j => PyGet(ms[i], "url") # PyGet(ms[j], "url")

\* C19: when the store starts with pairwise different urls and every
\* candidate sequence has pairwise different urls, then however the loads
\* and saves of overlapping ingestion runs, updates and deletes interleave,
\* no two mentions of the persisted store have the same url.
C19_UrlsStayUniqueUnderOverlap ==
    /\ AllUrlsDiffer(Stored)
    /\ \A w \in Workers : AllUrlsDiffer(pool.worker[w].mentions)

C19_Witness ==
    \E w, r \in Workers :
        /\ w # r
        /\ pool.worker[w].op = "crawl"
        /\ pool.worker[r].op = "crawl"
        /\ pool.worker[w].pc = "done"
        /\ pool.worker[r].pc = "done"
        /\ pool.worker[w].candidates # pool.worker[r].candidates
        /\ w \in pool.worker[r].missed
        /\ pool.lastWriter = r
        /\ \E i \in 1..Len(pool.worker[w].mentions) :
               ~KnownUrl(pool.worker[w].mentions[i], Stored)

\* the workers whose ingestion run has reported success
Succeeded ==
    { w \in Workers : /\ pool.worker[w].op = "crawl"
                      /\ pool.worker[w].pc = "done"
                      /\ pool.worker[w].code = 200 }

\* no run has loaded the log before another run's write of it and not yet
\* written, or written since
NoLogOverlap == \A w \in Workers : pool.worker[w].missedLog = {}

\* C20 as stated: the persisted crawl log holds one entry for every
\* ingestion run that has reported success, also when runs overlap.
C20_EveryRunIsLogged ==
    /\ Len(StoredLog) = Cardinality(Succeeded)
    /\ \A w \in Succeeded :
           \E i \in 1..Len(StoredLog) : StoredLog[i] = pool.worker[w].entry

\* C20 amended: as long as no run wrote the log between another run's load
\* of the log and that run's write, the persisted crawl log holds one entry
\* for every ingestion run that has reported success.
C20_RunsApartAreLogged ==
    NoLogOverlap => C20_EveryRunIsLogged

C20_Witness ==
    /\ NoLogOverlap
    /\ Cardinality(Succeeded) = 2
    /\ Len(StoredLog) = 2
    /\ StoredLog[1] # StoredLog[2]

====
